---------------------------- MODULE Spec2Model ----------------------------
(***************************************************************************)
(* A model of the snowman ray tracer (src/main.cpp): ray/sphere and        *)
(* ray/plane intersection, the recursive shading routine cast_ray, the     *)
(* environment-map lookup, the parallel render loop with its post-pass,    *)
(* and the control flow of main.                                           *)
(*                                                                         *)
(* A float is modelled as an integer counting steps of 1/Unit.  Sums and   *)
(* differences are exact; a product of two lengths (a dot product, a       *)
(* squared norm) is kept exactly, at 1/Unit^2; it is rounded to the        *)
(* nearest step when it is stored as a length again, and sqrtf rounds      *)
(* down.  A vector is a tuple <<x, y, z>>.                                 *)
(***************************************************************************)
EXTENDS Integers, Sequences, FiniteSets, TLC

VARIABLES
    pc,              \* main: the statement main is about to execute
    exit_status,     \* main: value returned by main, once pc = "exit"
    err,             \* main: what was written to std::cerr
    load,            \* main: what stbi_load returned (pixmap, dimensions, n)
    envmap_width,    \* global envmap_width
    envmap_height,   \* global envmap_height
    envmap,          \* global envmap: sequence of colors, row-major
    spheres,         \* the scene's spheres (main's vector, passed by const&)
    lights,          \* the scene's lights
    framebuffer,     \* render: function slot -> color ("unset" before the write)
    row_i,           \* render: per scanline task j, the next column i
    writes,          \* render (ghost): per slot, the set of tasks that wrote it
    pp_i,            \* render: index of the post-pass loop
    pixmap,          \* render: the 8-bit output buffer, filled by the post-pass
    out_written,     \* render: stbi_write_jpg has been called
    stack,           \* cast_ray: the call stack, innermost frame last
    ret,             \* cast_ray: color returned by the outermost call (<<>> before)
    ncalls,          \* cast_ray (ghost): per depth, number of calls made
    d5queries,       \* cast_ray (ghost): intersection queries made at depth > 4
    probe,           \* pure-function harness: the input under test
    probe_out        \* pure-function harness: the result

vars == <<pc, exit_status, err, load, envmap_width, envmap_height, envmap,
          spheres, lights, framebuffer, row_i, writes, pp_i, pixmap,
          out_written, stack, ret, ncalls, d5queries, probe, probe_out>>

-----------------------------------------------------------------------------
(* Fixed-point arithmetic standing for float.                               *)

\* "x = v; F(x)": v is evaluated once and F applied to its value.
With(v, F(_)) == CHOOSE r \in {F(x) : x \in {v}} : TRUE

\* Steps per unit of length: 1.0f is Unit.
Unit == 10

\* std::numeric_limits<float>::max(), larger than any distance of the model.
FloatMax == 1073741824

Abs(x) == With(x, LAMBDA v : IF v < 0 THEN -v ELSE v)

Max(a, b) == With(a, LAMBDA x : With(b, LAMBDA y : IF x < y THEN y ELSE x))

Min(a, b) == With(a, LAMBDA x : With(b, LAMBDA y : IF y < x THEN y ELSE x))

\* n/d rounded to the nearest integer, halves away from zero (d > 0).
RDiv(n, d) ==
    With(n, LAMBDA x : With(d, LAMBDA y :
        IF x >= 0 THEN (2 * x + y) \div (2 * y)
                  ELSE -((2 * (-x) + y) \div (2 * y))))

\* Product of two floats, stored as a float.
Mul(a, b) == RDiv(a * b, Unit)

\* Quotient of two floats (b # 0), stored as a float.
Quot(a, b) ==
    With(b, LAMBDA y : IF y > 0 THEN RDiv(a * Unit, y) ELSE RDiv(-(a * Unit), -y))

RECURSIVE SqrtSearch(_, _, _)
SqrtSearch(n, lo, hi) ==
    IF lo >= hi THEN lo
    ELSE With((lo + hi + 1) \div 2, LAMBDA mid :
             IF mid * mid <= n THEN SqrtSearch(n, mid, hi)
                               ELSE SqrtSearch(n, lo, mid - 1))

\* Largest s with s*s <= n (n >= 0).
ISqrt(n) == With(n, LAMBDA x : SqrtSearch(x, 0, Min(x, 46340)))

\* sqrtf of a float x >= 0: sqrt(x/Unit)*Unit = sqrt(x*Unit).
Sqrtf(x) == ISqrt(x * Unit)

-----------------------------------------------------------------------------
(* geometry.h: Vec3f.                                                       *)

VAdd(a, b) ==
    With(a, LAMBDA x : With(b, LAMBDA y : <<x[1] + y[1], x[2] + y[2], x[3] + y[3]>>))

VSub(a, b) ==
    With(a, LAMBDA x : With(b, LAMBDA y : <<x[1] - y[1], x[2] - y[2], x[3] - y[3]>>))

VNeg(a) == With(a, LAMBDA x : <<-x[1], -x[2], -x[3]>>)

\* Vec3f * float
VScale(a, s) ==
    With(a, LAMBDA x : With(s, LAMBDA y : <<Mul(x[1], y), Mul(x[2], y), Mul(x[3], y)>>))

\* Vec3f * Vec3f, the dot product, exact at 1/Unit^2.
Dot2(a, b) ==
    With(a, LAMBDA x : With(b, LAMBDA y : x[1] * y[1] + x[2] * y[2] + x[3] * y[3]))

\* Vec3f * Vec3f stored as a float.
Dot(a, b) == RDiv(Dot2(a, b), Unit)

\* Vec3f::norm()
Norm(a) == With(a, LAMBDA x : ISqrt(Dot2(x, x)))

\* Vec3f::normalize(); the zero vector (0/0 in the source) stays zero.
Normalize(a) ==
    With(a, LAMBDA x : With(Norm(x), LAMBDA n :
        IF n = 0 THEN <<0, 0, 0>>
        ELSE <<RDiv(x[1] * Unit, n), RDiv(x[2] * Unit, n), RDiv(x[3] * Unit, n)>>))

-----------------------------------------------------------------------------
(* Scene model: Material, Sphere, Light.                                    *)

\* Material(r, a, color, spec)
Material(r, a, color, spec) ==
    [refractive_index |-> r, albedo |-> a, diffuse_color |-> color,
     specular_exponent |-> spec]

\* Material(): refractive_index(1), albedo(1,0,0,0), diffuse_color(),
\* specular_exponent().
DefaultMaterial == Material(Unit, <<Unit, 0, 0, 0>>, <<0, 0, 0>>, 0)

\* Sphere(c, r, m)
Sphere(c, r, m) == [center |-> c, radius |-> r, material |-> m]

\* Light(p, i)
Light(p, i) == [position |-> p, intensity |-> i]

\* Sphere::ray_intersect that returns the far root.
RayIntersectFarRoot(s, orig, dir, t0in) ==
    With(VSub(s.center, orig), LAMBDA L :
    With(Dot(L, dir), LAMBDA tca :
    With(Dot2(L, L) - tca * tca, LAMBDA d2 :
        IF d2 > s.radius * s.radius THEN [hit |-> FALSE, t0 |-> t0in]
        ELSE With(ISqrt(s.radius * s.radius - d2), LAMBDA thc :
             With(tca + thc, LAMBDA t1 :
                 IF t1 < 0 THEN [hit |-> FALSE, t0 |-> t1]
                 ELSE [hit |-> TRUE, t0 |-> t1])))))

\* Sphere::ray_intersect(orig, dir, t0): the returned bool and the value left
\* in t0 (t0in: what t0 held before the call).
RayIntersect(s, orig, dir, t0in) ==
    With(VSub(s.center, orig), LAMBDA L :
    With(Dot(L, dir), LAMBDA tca :
    With(Dot2(L, L) - tca * tca, LAMBDA d2 :
        IF d2 > s.radius * s.radius THEN [hit |-> FALSE, t0 |-> t0in]
        ELSE With(ISqrt(s.radius * s.radius - d2), LAMBDA thc :
             With(tca - thc, LAMBDA t0 :
             With(tca + thc, LAMBDA t1 :
             With(IF t0 < 0 THEN t1 ELSE t0, LAMBDA t0b :
                 IF t0b < 0 THEN [hit |-> FALSE, t0 |-> t0b]
                 ELSE [hit |-> TRUE, t0 |-> t0b])))))))

\* reflect(I, N) = I - N*2.f*(I*N)
Reflect(I, N) == VSub(I, VScale(VScale(N, 2 * Unit), Dot(I, N)))

\* refract(I, N, eta_t, eta_i), Snell's law; it calls itself at most once,
\* with the normal flipped and the indices swapped.
RECURSIVE Refract(_, _, _, _)
Refract(I, N, eta_t, eta_i) ==
    With(-Max(-Unit, Min(Unit, Dot(I, N))), LAMBDA cosi :
        IF cosi < 0 THEN Refract(I, VNeg(N), eta_i, eta_t)
        ELSE With(Quot(eta_i, eta_t), LAMBDA eta :
             With(Unit - Mul(Mul(eta, eta), Unit - Mul(cosi, cosi)), LAMBDA k :
                 IF k < 0 THEN <<Unit, 0, 0>>
                 ELSE VAdd(VScale(I, eta),
                           VScale(N, Mul(eta, cosi) - Sqrtf(k))))))

-----------------------------------------------------------------------------
(* The ground plane and its pattern (scene_intersect, lines 91-118).        *)

\* The plane y = -4.
PlaneY == -4

\* The tile: |x| < 10 and -30 < z < -10.
PlaneHalfWidth == 10

PlaneZNear == -10

PlaneZFar == -30

\* The maximum render distance of line 119.
MaxRenderDist == 1000

\* Center of the pattern, Vec3f(0, -4, -18).
PatternCenter == <<0, -4 * Unit, -18 * Unit>>

\* pattern_width
PatternWidth == 1

\* Number of angular segments in half a turn: angle / (M_PI / 20).
HalfTurnSectors == 20

\* tan(k * 9 degrees) * 1000 for k = 1..9, the sector boundaries of the first
\* quadrant.
TanTable == <<158, 325, 510, 727, 1000, 1376, 1963, 3078, 6314>>

\* floor(atan2(z, x) / (pi/20)) for z >= 0, x > 0.
FloorSector(z, x) == Cardinality({k \in 1..9 : z * 1000 >= x * TanTable[k]})

\* ceil(atan2(z, x) / (pi/20)) for z >= 0, x > 0.
CeilSector(z, x) ==
    (IF z > 0 THEN 1 ELSE 0)
    + Cardinality({k \in 1..9 : z * 1000 > x * TanTable[k]})

\* floor(atan2(z, x) / (M_PI / 20)), atan2 in (-pi, pi].
SectorIndex(z, x) ==
    IF z >= 0
    THEN IF x > 0 THEN FloorSector(z, x)
         ELSE IF x = 0 THEN (IF z = 0 THEN 0 ELSE HalfTurnSectors \div 2)
         ELSE HalfTurnSectors - CeilSector(z, -x)
    ELSE IF x > 0 THEN -CeilSector(-z, x)
         ELSE IF x = 0 THEN -(HalfTurnSectors \div 2)
         ELSE -(HalfTurnSectors - FloorSector(-z, -x))

\* Lines 101-116: the color the ring pattern gives the plane at hit.
PatternColor(hit) ==
    With(VSub(hit, PatternCenter), LAMBDA diff :
    With(Norm(diff), LAMBDA radius :
    With(((radius \div (PatternWidth * Unit)) % 2) # 0, LAMBDA distance_pattern :
    With((SectorIndex(diff[3], diff[1]) % 2) # 0, LAMBDA angle_pattern :
        IF distance_pattern # angle_pattern THEN <<0, 0, 0>>
                                            ELSE <<Unit, Unit, Unit>>))))

-----------------------------------------------------------------------------
(* scene_intersect.                                                         *)

\* Threshold of line 92, fabs(dir.y) > 1e-3, in steps: on the grid a value
\* exceeds 1e-3 exactly when it exceeds 0.
ParallelEps == 0

Zero3 == <<0, 0, 0>>

\* Lines 81-89: the loop over the spheres from index i on; acc holds
\* spheres_dist and the out-parameters hit, N, material.
RECURSIVE SphereLoop(_, _, _, _, _)
SphereLoop(i, orig, dir, scene, acc) ==
    IF i > Len(scene) THEN acc
    ELSE With(RayIntersect(scene[i], orig, dir, 0), LAMBDA r :
         IF r.hit /\ r.t0 < acc.spheres_dist
         THEN With(VAdd(orig, VScale(dir, r.t0)), LAMBDA h :
              With([spheres_dist |-> r.t0,
                    hit          |-> h,
                    N            |-> Normalize(VSub(h, scene[i].center)),
                    material     |-> scene[i].material], LAMBDA acc1 :
              With(i + 1, LAMBDA i1 : SphereLoop(i1, orig, dir, scene, acc1))))
         ELSE With(i + 1, LAMBDA i1 : SphereLoop(i1, orig, dir, scene, acc)))

\* Lines 92-95 without the comparison with the nearest sphere.
PlaneHitAnyDist(orig, dir, spheres_dist) ==
    IF Abs(dir[2]) > ParallelEps
    THEN With(Quot(-(orig[2] - PlaneY * Unit), dir[2]), LAMBDA d :
         With(VAdd(orig, VScale(dir, d)), LAMBDA pt :
             [ok |-> /\ d > 0
                     /\ Abs(pt[1]) < PlaneHalfWidth * Unit
                     /\ pt[3] < PlaneZNear * Unit
                     /\ pt[3] > PlaneZFar * Unit,
              d |-> d, pt |-> pt]))
    ELSE [ok |-> FALSE, d |-> 0, pt |-> Zero3]

\* Lines 92-95: whether the plane hit is accepted, and where.
PlaneHit(orig, dir, spheres_dist) ==
    IF Abs(dir[2]) > ParallelEps
    THEN With(Quot(-(orig[2] - PlaneY * Unit), dir[2]), LAMBDA d :
         With(VAdd(orig, VScale(dir, d)), LAMBDA pt :
             [ok |-> /\ d > 0
                     /\ Abs(pt[1]) < PlaneHalfWidth * Unit
                     /\ pt[3] < PlaneZNear * Unit
                     /\ pt[3] > PlaneZFar * Unit
                     /\ d < spheres_dist,
              d |-> d, pt |-> pt]))
    ELSE [ok |-> FALSE, d |-> 0, pt |-> Zero3]

\* scene_intersect that gives the plane the material the caller passed in.
SceneIntersectOwnPlane(orig, dir, scene, hit0, N0, material0) ==
    With(SphereLoop(1, orig, dir, scene,
             [spheres_dist |-> FloatMax, hit |-> hit0, N |-> N0,
              material |-> material0]), LAMBDA s :
    With(PlaneHit(orig, dir, s.spheres_dist), LAMBDA p :
    With(IF p.ok THEN p.d ELSE FloatMax, LAMBDA checkerboard_dist :
        [found    |-> Min(s.spheres_dist, checkerboard_dist) < MaxRenderDist * Unit,
         hit      |-> IF p.ok THEN p.pt ELSE s.hit,
         N        |-> IF p.ok THEN <<0, Unit, 0>> ELSE s.N,
         material |-> IF p.ok
                      THEN [material0 EXCEPT !.diffuse_color = PatternColor(p.pt)]
                      ELSE s.material,
         spheres_dist      |-> s.spheres_dist,
         checkerboard_dist |-> checkerboard_dist])))

\* scene_intersect(orig, dir, spheres, hit, N, material): the returned bool
\* (found) and the values left in the out-parameters, which held hit0, N0 and
\* material0 before the call.
SceneIntersect(orig, dir, scene, hit0, N0, material0) ==
    With(SphereLoop(1, orig, dir, scene,
             [spheres_dist |-> FloatMax, hit |-> hit0, N |-> N0,
              material |-> material0]), LAMBDA s :
    With(PlaneHit(orig, dir, s.spheres_dist), LAMBDA p :
    With(IF p.ok THEN p.d ELSE FloatMax, LAMBDA checkerboard_dist :
        [found    |-> Min(s.spheres_dist, checkerboard_dist) < MaxRenderDist * Unit,
         hit      |-> IF p.ok THEN p.pt ELSE s.hit,
         N        |-> IF p.ok THEN <<0, Unit, 0>> ELSE s.N,
         material |-> IF p.ok
                      THEN [s.material EXCEPT !.diffuse_color = PatternColor(p.pt)]
                      ELSE s.material,
         spheres_dist      |-> s.spheres_dist,
         checkerboard_dist |-> checkerboard_dist])))

\* scene_intersect with material bound to the stored sphere: the pattern
\* color of an accepted plane hit is written into the nearest sphere.
SceneAfterIntersectAliased(orig, dir, scene) ==
    With(SceneIntersect(orig, dir, scene, Zero3, Zero3, DefaultMaterial),
         LAMBDA si :
        IF si.checkerboard_dist = FloatMax THEN scene
        ELSE [k \in 1..Len(scene) |->
                 With(RayIntersect(scene[k], orig, dir, 0), LAMBDA r :
                     IF r.hit /\ r.t0 = si.spheres_dist
                     THEN [scene[k] EXCEPT !.material.diffuse_color =
                                               si.material.diffuse_color]
                     ELSE scene[k])])

\* What a call of scene_intersect leaves in the caller's vector of spheres:
\* the parameter is a const reference and the material is copied out of it
\* (line 87), so the pattern of lines 112-116 recolors the copy.
SceneAfterIntersect(orig, dir, scene) == scene

-----------------------------------------------------------------------------
(* The environment lookup of cast_ray, lines 131-133.                       *)

\* floor((atan2(z, x)/(2*M_PI) + .5) * 4): the quarter turn the azimuth falls
\* in, 4 when atan2 returns pi exactly.
QuarterIndex(z, x) ==
    IF z < 0 THEN (IF x < 0 THEN 0 ELSE 1)
    ELSE IF x > 0 THEN 2
    ELSE IF x = 0 THEN (IF z = 0 THEN 2 ELSE 3)
    ELSE IF z > 0 THEN 3 ELSE 4

\* static_cast<int>((atan2(dir.z, dir.x)/(2*M_PI) + .5)*envmap_width), exact
\* for the widths that divide 4.
AzimuthCast(dir, w) == (QuarterIndex(dir[3], dir[1]) * w) \div 4

\* floor(acos(y)/M_PI * 2) for -1 <= y <= 1.
HalfIndex(y) == IF y > 0 THEN 0 ELSE IF y > -Unit THEN 1 ELSE 2

\* static_cast<int>(acos(dir.y)/M_PI*envmap_height), exact for the heights
\* that divide 2.
ElevationCast(dir, h) == (HalfIndex(dir[2]) * h) \div 2

\* The clamp of line 131 with envmap_width as the upper limit.
ClampColumnWide(cast, w) == Max(0, Min(w, cast))

\* The clamp of line 131: max(0, min(envmap_width - 1, cast)).
ClampColumn(cast, w) == Max(0, Min(w - 1, cast))

\* The clamp of line 132: max(0, min(envmap_height - 1, cast)).
ClampRow(cast, h) == Max(0, Min(h - 1, cast))

\* a + b*envmap_width of line 133, from the two casts.
EnvIndex(castA, castB, w, h) == ClampColumn(castA, w) + ClampRow(castB, h) * w

\* Lines 131-133: envmap[a + b*envmap_width]; env is [w, h, data], data the
\* vector (indexed from 1 here).
EnvSample(dir, env) ==
    env.data[EnvIndex(AzimuthCast(dir, env.w), ElevationCast(dir, env.h),
                      env.w, env.h) + 1]

-----------------------------------------------------------------------------
(* cast_ray.                                                                *)

\* The recursion limit of line 129 (depth > 4).
MaxDepth == 4

\* The test of line 129 with the limit off by one.
DepthExceededLate(depth) == depth > MaxDepth + 1

\* depth > 4, the first operand of line 129.
DepthExceeded(depth) == depth > MaxDepth

\* The offset 1e-3 of lines 139-150, in steps: one step, the smallest offset
\* the grid can hold.
Epsilon == 1

\* powf(x, e) for a whole exponent e >= 0, by repeated squaring.
RECURSIVE Powf(_, _)
Powf(x, e) ==
    IF e = 0 THEN Unit
    ELSE With(e \div 2, LAMBDA e2 :
         With(Powf(x, e2), LAMBDA h :
         With(Mul(h, h), LAMBDA h2 :
             IF e % 2 = 0 THEN h2 ELSE Mul(x, h2))))

\* d*N < 0 ? point - N*1e-3 : point + N*1e-3 (lines 139, 141, 150).
OffsetOrigin(d, point, N) ==
    IF Dot2(d, N) < 0 THEN VSub(point, VScale(N, Epsilon))
                      ELSE VAdd(point, VScale(N, Epsilon))

\* Lines 137-141: the two secondary rays of a hit.
SecondaryRays(dir, point, N, material) ==
    With(Normalize(Reflect(dir, N)), LAMBDA reflect_dir :
    With(Normalize(Refract(dir, N, material.refractive_index, Unit)),
         LAMBDA refract_dir :
        [reflect_dir  |-> reflect_dir,
         refract_dir  |-> refract_dir,
         reflect_orig |-> OffsetOrigin(reflect_dir, point, N),
         refract_orig |-> OffsetOrigin(refract_dir, point, N)]))

\* Lines 147-155: the shadow test of one light: whether scene_intersect finds,
\* along the shadow ray, a hit nearer than the light.
InShadow(light, scene, point, N) ==
    With(VSub(light.position, point), LAMBDA to_light :
    With(Normalize(to_light), LAMBDA light_dir :
    With(Norm(to_light), LAMBDA light_distance :
    With(OffsetOrigin(light_dir, point, N), LAMBDA shadow_orig :
    With(SceneIntersect(shadow_orig, light_dir, scene, Zero3, Zero3,
                        DefaultMaterial), LAMBDA sh :
        sh.found /\ Norm(VSub(sh.hit, shadow_orig)) < light_distance)))))

\* Line 158: what an unshadowed light adds to diffuse_light_intensity.
DiffuseTerm(light, point, N) ==
    With(Normalize(VSub(light.position, point)), LAMBDA light_dir :
        Mul(light.intensity, Max(0, Dot(light_dir, N))))

\* Lines 159-160: what an unshadowed light adds to specular_light_intensity.
SpecularTerm(light, point, N, dir, material) ==
    With(Normalize(VSub(light.position, point)), LAMBDA light_dir :
    With(Max(0, Dot(VNeg(Reflect(VNeg(light_dir), N)), dir)), LAMBDA c :
        Mul(Powf(c, material.specular_exponent), light.intensity)))

\* One iteration of the loop of lines 146-161 with the shadow ray always cast
\* toward lights[0].
LightStepFirstShadow(i, lts, scene, point, N, dir, material, acc) ==
    IF InShadow(lts[1], scene, point, N)
    THEN acc
    ELSE [diffuse  |-> acc.diffuse + DiffuseTerm(lts[i], point, N),
          specular |-> acc.specular
                       + SpecularTerm(lts[i], point, N, dir, material)]

\* One iteration of the loop of lines 146-161, for light i; acc holds
\* diffuse_light_intensity and specular_light_intensity.
LightStep(i, lts, scene, point, N, dir, material, acc) ==
    IF InShadow(lts[i], scene, point, N)
    THEN acc
    ELSE [diffuse  |-> acc.diffuse + DiffuseTerm(lts[i], point, N),
          specular |-> acc.specular
                       + SpecularTerm(lts[i], point, N, dir, material)]

\* Line 145: the two intensities before the loop.
NoLight == [diffuse |-> 0, specular |-> 0]

\* Lines 146-161: the loop over the lights from index i on.
RECURSIVE LightLoop(_, _, _, _, _, _, _, _)
LightLoop(i, lts, scene, point, N, dir, material, acc) ==
    IF i > Len(lts) THEN acc
    ELSE With(LightStep(i, lts, scene, point, N, dir, material, acc), LAMBDA acc1 :
         With(i + 1, LAMBDA i1 :
             LightLoop(i1, lts, scene, point, N, dir, material, acc1)))

\* Lines 162-164: the returned color.
Shade(material, acc, reflect_color, refract_color) ==
    With(VScale(VScale(material.diffuse_color, acc.diffuse), material.albedo[1]),
         LAMBDA diffuse :
    With(VScale(VScale(<<Unit, Unit, Unit>>, acc.specular), material.albedo[2]),
         LAMBDA specular :
        VAdd(VAdd(VAdd(diffuse, specular),
                  VScale(reflect_color, material.albedo[3])),
             VScale(refract_color, material.albedo[4]))))

\* cast_ray(orig, dir, spheres, lights, depth) as a function of its arguments
\* and the environment map.
RECURSIVE CastRay(_, _, _, _, _, _)
CastRay(orig, dir, scene, lts, env, depth) ==
    IF DepthExceeded(depth) THEN EnvSample(dir, env)
    ELSE With(SceneIntersect(orig, dir, scene, Zero3, Zero3, DefaultMaterial),
              LAMBDA si :
         IF ~si.found THEN EnvSample(dir, env)
         ELSE With(SecondaryRays(dir, si.hit, si.N, si.material), LAMBDA g :
              With(depth + 1, LAMBDA d1 :
              With(CastRay(g.reflect_orig, g.reflect_dir, scene, lts, env, d1),
                   LAMBDA reflect_color :
              With(CastRay(g.refract_orig, g.refract_dir, scene, lts, env, d1),
                   LAMBDA refract_color :
              With(LightLoop(1, lts, scene, si.hit, si.N, dir, si.material,
                             NoLight), LAMBDA acc :
                  Shade(si.material, acc, reflect_color, refract_color)))))))

-----------------------------------------------------------------------------
(* Scenes and environment maps the model runs on.                           *)

\* snow_body, snow_eyes, snow_button of main (lines 237-249), the weights
\* rounded to the grid.
snow_body == Material(Unit, <<8, 1, 0, 0>>, <<Unit, Unit, Unit>>, 50)

snow_eyes == Material(Unit, <<8, 1, 0, 0>>, <<0, 0, 0>>, 50)

snow_button == Material(Unit, <<6, 3, 1, 0>>, <<8, 0, 0>>, 50)

\* A perfect mirror and a refractive glass.
mirror == Material(Unit, <<0, Unit, 8, 0>>, <<Unit, Unit, Unit>>, 2)

glass == Material(15, <<0, 5, 1, 8>>, <<6, 7, 8>>, 3)

\* The body, one eye and one button of the snowman (lines 240-251).
SnowmanScene ==
    <<Sphere(<<0, 24, -160>>, 13, snow_body),
      Sphere(<<0, 0, -160>>, 15, snow_body),
      Sphere(<<0, -20, -160>>, 17, snow_body),
      Sphere(<<5, 30, -150>>, 2, snow_eyes),
      Sphere(<<0, 10, -150>>, 2, snow_button)>>

\* The three lights of main (lines 332-335).
SnowmanLights ==
    <<Light(<<-200, 200, 200>>, 15),
      Light(<<300, 500, -250>>, 18),
      Light(<<300, 200, 300>>, 17)>>

\* Two mirrors facing each other across the origin: a ray along the x axis
\* bounces between them for ever.
MirrorScene ==
    <<Sphere(<<-40, 0, 0>>, 20, mirror), Sphere(<<40, 0, 0>>, 20, mirror)>>

\* Five concentric glass spheres: a ray that starts inside the innermost one
\* hits a sphere at every depth.
NestedScene ==
    <<Sphere(<<0, 0, 0>>, 20, glass), Sphere(<<0, 0, 0>>, 40, mirror),
      Sphere(<<0, 0, 0>>, 60, glass), Sphere(<<0, 0, 0>>, 80, mirror),
      Sphere(<<0, 0, 0>>, 100, glass)>>

\* A sphere below the tile of the plane, one above it that shadows it, and a
\* sphere in front of the camera of render.
TileScene ==
    <<Sphere(<<0, -60, -200>>, 15, snow_button),
      Sphere(<<0, 20, -200>>, 10, glass),
      Sphere(<<30, 40, -60>>, 40, mirror)>>

TileLights ==
    <<Light(<<0, 100, -200>>, 15), Light(<<-200, 200, 200>>, 12)>>

\* A sphere farther away than the maximum render distance.
FarScene == <<Sphere(<<0, 0, -10100>>, 50, snow_body)>>

\* Byte c of texel k of the image stbi_load decodes.
TexelByte(k, c) == (97 * k + 61 * c + 40) % 256

\* Lines 224-226: Vec3f(pixmap[...], ...) * (1/255.) for texel k (from 0).
TexelColor(bytes, n, k) ==
    <<RDiv(bytes[k * n + 1] * Unit, 255), RDiv(bytes[k * n + 2] * Unit, 255),
      RDiv(bytes[k * n + 3] * Unit, 255)>>

\* The image file decoded with n channels.
Image(w, h, n) ==
    [pixmap |-> [p \in 1..(w * h * n) |-> TexelByte((p - 1) \div n, (p - 1) % n)],
     null |-> FALSE, w |-> w, h |-> h, n |-> n]

\* The environment map main builds from an image (lines 221-228).
EnvOf(img) ==
    [w |-> img.w, h |-> img.h,
     data |-> [k \in 1..(img.w * img.h) |-> TexelColor(img.pixmap, img.n, k - 1)]]

\* Map sizes for which the model computes the lookup exactly.
EnvWidths == {1, 2, 4}

EnvHeights == {1, 2}

-----------------------------------------------------------------------------
(* main and render.                                                         *)

\* width and height of render (1500 and 900 in the source).
ImgWidth == 3

ImgHeight == 2

\* tan(fov/2) * 1000 for fov = M_PI/3.
TanHalfFov == 577

\* camera_position, Vec3f(3, 4, 8).
Camera == <<3 * Unit, 4 * Unit, 8 * Unit>>

\* Lines 180-183: the normalized direction of the primary ray of pixel (i, j).
PrimaryDir(i, j) ==
    Normalize(<<RDiv((2 * i + 1 - ImgWidth) * Unit, 2),
                RDiv((ImgHeight - 2 * j - 1) * Unit, 2),
                -RDiv(ImgHeight * Unit * 1000, 2 * TanHalfFov)>>)

\* A write index that forgets the row stride.
SlotIndexNoStride(i, j) == i + j

\* Line 183: the framebuffer index i + j*width of pixel (i, j).
SlotIndex(i, j) == i + j * ImgWidth

\* The current environment map as cast_ray reads it.
Env == [w |-> envmap_width, h |-> envmap_height, data |-> envmap]

\* What stbi_load can return (line 216): failure, or an image with 1, 3 or 4
\* channels.
LoadOutcomes ==
    {[pixmap |-> <<>>, null |-> TRUE, w |-> 0, h |-> 0, n |-> -1]}
    \cup {Image(w, h, n) : w \in EnvWidths, h \in EnvHeights, n \in {1, 3, 4}}

\* The scenes main may have built when it calls render.
RenderScenes ==
    {[spheres |-> SnowmanScene, lights |-> SnowmanLights],
     [spheres |-> TileScene, lights |-> TileLights]}

mainVars == <<pc, exit_status, err, load>>

envVars == <<envmap_width, envmap_height, envmap>>

sceneVars == <<spheres, lights>>

renderVars == <<framebuffer, row_i, writes, pp_i, pixmap, out_written>>

castVars == <<stack, ret, ncalls, d5queries>>

probeVars == <<probe, probe_out>>

\* Line 216: stbi_load.
Load ==
    /\ pc = "load"
    /\ \E img \in LoadOutcomes :
          /\ load' = img
          /\ envmap_width' = img.w
          /\ envmap_height' = img.h
    /\ pc' = "check"
    /\ UNCHANGED <<exit_status, err, envmap, sceneVars, renderVars, castVars,
                   probeVars>>

\* The test of line 217 with && in place of ||.
LoadFailedBoth(img) == img.null /\ 3 # img.n

\* The test of line 217: !pixmap || 3 != n.
LoadFailed(img) == img.null \/ 3 # img.n

\* Lines 217-220.
CheckLoad ==
    /\ pc = "check"
    /\ IF LoadFailed(load)
       THEN /\ err' = Append(err, "Error: can not load the environment map")
            /\ exit_status' = -1
            /\ pc' = "exit"
       ELSE /\ pc' = "convert"
            /\ UNCHANGED <<err, exit_status>>
    /\ UNCHANGED <<load, envVars, sceneVars, renderVars, castVars, probeVars>>

\* Lines 221-229: the conversion of the image into envmap.
Convert ==
    /\ pc = "convert"
    /\ envmap' = EnvOf(load).data
    /\ pc' = "scene"
    /\ UNCHANGED <<exit_status, err, load, envmap_width, envmap_height,
                   sceneVars, renderVars, castVars, probeVars>>

\* Lines 236-335: the scene is built.
BuildScene ==
    /\ pc = "scene"
    /\ \E sc \in RenderScenes :
          /\ spheres' = sc.spheres
          /\ lights' = sc.lights
    /\ pc' = "render"
    /\ UNCHANGED <<exit_status, err, load, envVars, renderVars, castVars,
                   probeVars>>

\* Line 175: render allocates the framebuffer; the parallel loop starts.
RenderBegin ==
    /\ pc = "render"
    /\ framebuffer' = [k \in 1..(ImgWidth * ImgHeight) |-> Zero3]
    /\ row_i' = [j \in 0..(ImgHeight - 1) |-> 0]
    /\ writes' = [k \in 1..(ImgWidth * ImgHeight) |-> {}]
    /\ pc' = "loop"
    /\ UNCHANGED <<exit_status, err, load, envVars, sceneVars, pp_i, pixmap,
                   out_written, castVars, probeVars>>

\* Lines 179-185: the task of scanline j computes its next pixel.
RowStep(j) ==
    /\ pc = "loop"
    /\ row_i[j] < ImgWidth
    /\ LET i    == row_i[j]
           slot == SlotIndex(i, j) + 1
       IN  /\ framebuffer' = [framebuffer EXCEPT ![slot] =
                  CastRay(Camera, PrimaryDir(i, j), spheres, lights, Env, 0)]
           /\ writes' = [writes EXCEPT ![slot] = @ \cup {<<i, j>>}]
           /\ row_i' = [row_i EXCEPT ![j] = i + 1]
    /\ UNCHANGED <<mainVars, envVars, sceneVars, pp_i, pixmap, out_written,
                   castVars, probeVars>>

\* The end of the parallel region (line 186), then line 188.
Join ==
    /\ pc = "loop"
    /\ \A j \in 0..(ImgHeight - 1) : row_i[j] = ImgWidth
    /\ pixmap' = [k \in 1..(ImgWidth * ImgHeight * 3) |-> 0]
    /\ pp_i' = 0
    /\ pc' = "post"
    /\ UNCHANGED <<exit_status, err, load, envVars, sceneVars, framebuffer,
                   row_i, writes, out_written, castVars, probeVars>>

\* Lines 191-192 with the factor 1/max rounded to float before the product.
ExposeFloatFactor(c) ==
    With(Max(c[1], Max(c[2], c[3])), LAMBDA max :
        IF max > Unit THEN VScale(c, Quot(Unit, max)) ELSE c)

\* Lines 191-192: c = c*(1./max) when max > 1.  The factor is a double and the
\* product is rounded to float once, so each channel is the rounded quotient.
Expose(c) ==
    With(Max(c[1], Max(c[2], c[3])), LAMBDA max :
        IF max > Unit THEN <<Quot(c[1], max), Quot(c[2], max), Quot(c[3], max)>>
                      ELSE c)

\* Line 194: (unsigned char)(255 * max(0.f, min(1.f, x))).
Quantize(x) == (255 * Max(0, Min(Unit, x))) \div Unit

\* Lines 190-195: one iteration of the post-pass.
PostPassStep ==
    /\ pc = "post"
    /\ pp_i < ImgWidth * ImgHeight
    /\ LET c == Expose(framebuffer[pp_i + 1])
       IN  /\ framebuffer' = [framebuffer EXCEPT ![pp_i + 1] = c]
           /\ pixmap' = [k \in 1..(ImgWidth * ImgHeight * 3) |->
                           IF (k - 1) \div 3 = pp_i
                           THEN Quantize(c[((k - 1) % 3) + 1])
                           ELSE pixmap[k]]
    /\ pp_i' = pp_i + 1
    /\ UNCHANGED <<mainVars, envVars, sceneVars, row_i, writes, out_written,
                   castVars, probeVars>>

\* Line 197: stbi_write_jpg.
WriteImage ==
    /\ pc = "post"
    /\ pp_i = ImgWidth * ImgHeight
    /\ out_written' = TRUE
    /\ pc' = "return"
    /\ UNCHANGED <<exit_status, err, load, envVars, sceneVars, framebuffer,
                   row_i, writes, pp_i, pixmap, castVars, probeVars>>

\* Line 340: render has returned; main returns 0.
MainReturn ==
    /\ pc = "return"
    /\ exit_status' = 0
    /\ pc' = "exit"
    /\ UNCHANGED <<err, load, envVars, sceneVars, renderVars, castVars,
                   probeVars>>

\* The variables a specification does not use.
IdleRender ==
    /\ framebuffer = <<>>
    /\ row_i = <<>>
    /\ writes = <<>>
    /\ pp_i = 0
    /\ pixmap = <<>>
    /\ out_written = FALSE

IdleCast ==
    /\ stack = <<>>
    /\ ret = <<>>
    /\ ncalls = <<>>
    /\ d5queries = 0

IdleProbe ==
    /\ probe = [kind |-> "none"]
    /\ probe_out = [kind |-> "none"]

\* The state in which main starts.
Init ==
    /\ pc = "load"
    /\ exit_status = 0
    /\ err = <<>>
    /\ load = [null |-> TRUE]
    /\ envmap_width = 0
    /\ envmap_height = 0
    /\ envmap = <<>>
    /\ spheres = <<>>
    /\ lights = <<>>
    /\ IdleRender
    /\ IdleCast
    /\ IdleProbe

Next ==
    \/ Load
    \/ CheckLoad
    \/ Convert
    \/ BuildScene
    \/ RenderBegin
    \/ \E j \in 0..(ImgHeight - 1) : RowStep(j)
    \/ Join
    \/ PostPassStep
    \/ WriteImage
    \/ MainReturn

Spec == Init /\ [][Next]_vars

-----------------------------------------------------------------------------
(* Properties of main and render, checked under Spec.                       *)

\* The pixel a framebuffer slot (from 1) belongs to.
PixelOf(k) == <<(k - 1) % ImgWidth, (k - 1) \div ImgWidth>>

\* The color of pixel <<i, j>> as a function of the pixel alone.
PixelColor(px) ==
    CastRay(Camera, PrimaryDir(px[1], px[2]), spheres, lights, Env, 0)

\* During the parallel loop every slot has been written by the task of its
\* own pixel or by nobody; it holds that pixel's color or is still untouched.
SlotsDisjoint ==
    \A k \in 1..(ImgWidth * ImgHeight) :
        /\ writes[k] \subseteq {PixelOf(k)}
        /\ framebuffer[k] = IF writes[k] = {} THEN Zero3 ELSE PixelColor(PixelOf(k))
        /\ (writes[k] # {}) <=> (row_i[PixelOf(k)[2]] > PixelOf(k)[1])

\* C2: under every interleaving of the scanline tasks, the task of pixel
\* (i, j) is the only writer of slot i + j*width, each slot holds the color
\* that depends on its own pixel only, so that the framebuffer at the join is
\* the same whatever the schedule was; the scene, the lights and the
\* environment map do not change during the loop.
C2_RenderScheduleIndependent ==
    /\ [](pc = "loop" => SlotsDisjoint)
    /\ []((pc = "post" /\ pp_i = 0) =>
            framebuffer = [k \in 1..(ImgWidth * ImgHeight) |-> PixelColor(PixelOf(k))])
    /\ [][pc = "loop" => UNCHANGED <<sceneVars, envVars>>]_vars

\* The last scanline is finished while the first has computed one pixel only:
\* the tasks ran out of order and wrote different, non-background slots.
C2_Witness ==
    /\ pc = "loop"
    /\ row_i[0] = 1
    /\ row_i[ImgHeight - 1] = ImgWidth
    /\ ImgHeight > 1
    /\ \E k \in 1..(ImgWidth * ImgHeight) :
          writes[k] # {} /\ framebuffer[k] # Zero3

\* Render has been called: main is in render or past it.
InRender == pc \in {"loop", "post", "return"}

\* C6: when the load fails or the image has not 3 channels, main reaches no
\* statement past the test, leaves the scene unbuilt, the framebuffer
\* unallocated and the output unwritten, and returns non-zero with one
\* diagnostic on the error stream; render runs only with the whole map
\* converted; the output is written only when every pixel has been computed.
C6_LoadFailureAborts ==
    /\ (pc # "load" /\ (load.null \/ load.n # 3)) =>
          /\ pc \in {"check", "exit"}
          /\ spheres = <<>> /\ lights = <<>>
          /\ framebuffer = <<>> /\ writes = <<>>
          /\ ~out_written
          /\ pc = "exit" => (exit_status # 0 /\ Len(err) = 1)
    /\ (InRender \/ pc = "render") =>
          /\ ~load.null /\ load.n = 3
          /\ Len(envmap) = envmap_width * envmap_height
          /\ \A k \in 1..Len(envmap) : envmap[k] = TexelColor(load.pixmap, 3, k - 1)
          /\ err = <<>>
    /\ out_written =>
          /\ \A j \in 0..(ImgHeight - 1) : row_i[j] = ImgWidth
          /\ \A k \in 1..(ImgWidth * ImgHeight) : writes[k] # {}
          /\ pp_i = ImgWidth * ImgHeight

\* An image with four channels was decoded and main has returned -1.
C6_Witness ==
    /\ pc = "exit"
    /\ ~load.null /\ load.n = 4
    /\ exit_status = -1
    /\ err # <<>>

-----------------------------------------------------------------------------
(* The post-pass of render on arbitrary pixel colors: SpecTone.             *)

\* Channel values a pixel may hold when the post-pass starts: negative, zero,
\* below 1, exactly 1, and above 1.
ToneChannels == {-3, 0, 4, 7, Unit, 11, 15, 23}

ToneColors == {<<r, g, b>> : r \in ToneChannels, g \in ToneChannels, b \in ToneChannels}

\* Colors of the neighbouring pixels.
ToneNeighbours == {<<0, 0, 0>>, <<30, 12, -5>>}

\* The post-pass starts on a framebuffer whose even slots hold one color and
\* whose odd slots hold another; probe keeps the colors as they were.
InitTone ==
    /\ pc = "post"
    /\ exit_status = 0
    /\ err = <<>>
    /\ load = [null |-> TRUE]
    /\ envmap_width = 0
    /\ envmap_height = 0
    /\ envmap = <<>>
    /\ spheres = <<>>
    /\ lights = <<>>
    /\ \E c1 \in ToneColors, c2 \in ToneNeighbours :
          framebuffer = [k \in 1..(ImgWidth * ImgHeight) |->
                            IF k % 2 = 1 THEN c1 ELSE c2]
    /\ row_i = [j \in 0..(ImgHeight - 1) |-> ImgWidth]
    /\ writes = [k \in 1..(ImgWidth * ImgHeight) |-> {PixelOf(k)}]
    /\ pp_i = 0
    /\ pixmap = [k \in 1..(ImgWidth * ImgHeight * 3) |-> 0]
    /\ out_written = FALSE
    /\ IdleCast
    /\ probe = [kind |-> "tone", fb |-> framebuffer]
    /\ probe_out = [kind |-> "none"]

NextTone ==
    \/ PostPassStep
    \/ WriteImage
    \/ MainReturn

SpecTone == InitTone /\ [][NextTone]_vars

\* The largest channel of a color.
MaxChannel(c) == Max(c[1], Max(c[2], c[3]))

\* Pixel k has been processed: its color was c0, is now c, and its bytes are
\* what the post-pass should have produced from c0 alone.
ToneDone(k, c0, c) ==
    /\ IF MaxChannel(c0) > Unit
       THEN /\ MaxChannel(c) = Unit
            /\ \A ch \in 1..3 :
                  /\ 2 * Abs(c[ch] * MaxChannel(c0) - c0[ch] * Unit) <= MaxChannel(c0)
                  /\ c0[ch] = MaxChannel(c0) => pixmap[3 * (k - 1) + ch] = 255
       ELSE c = c0
    /\ \A ch \in 1..3 :
          LET byte == pixmap[3 * (k - 1) + ch]
              x    == IF c[ch] < 0 THEN 0 ELSE IF c[ch] > Unit THEN Unit ELSE c[ch]
          IN  /\ byte \in 0..255
              /\ byte * Unit <= 255 * x /\ 255 * x < (byte + 1) * Unit
              /\ c0[ch] < 0 => byte = 0

\* C8: the post-pass treats each pixel on its own: a processed pixel whose
\* largest channel exceeded 1 has been divided by that channel (its brightest
\* channel is exactly 1 and its byte 255, the ratios are kept to within the
\* rounding), another processed pixel is unscaled; every byte is the clamped
\* channel quantized to 0..255, 0 for a negative channel; the pixels not yet
\* processed are untouched.
C8_PerPixelExposure ==
    pc \in {"post", "return", "exit"} =>
        \A k \in 1..(ImgWidth * ImgHeight) :
            IF k <= pp_i
            THEN ToneDone(k, probe.fb[k], framebuffer[k])
            ELSE /\ framebuffer[k] = probe.fb[k]
                 /\ \A ch \in 1..3 : pixmap[3 * (k - 1) + ch] = 0

\* The first pixel held 2.3, 1.5 and -0.3 and has been processed: it now holds
\* 1.0, 0.7 and -0.1, and its bytes are 255, 178 and 0.
C8_Witness ==
    /\ pc = "post"
    /\ pp_i >= 1
    /\ probe.fb[1] = <<23, 15, -3>>
    /\ framebuffer[1] = <<Unit, 7, -1>>
    /\ pixmap[1] = 255 /\ pixmap[2] = 178 /\ pixmap[3] = 0

-----------------------------------------------------------------------------
(* The clamp of the environment lookup on arbitrary casts: SpecEnv.         *)

\* Largest width and height of the maps tried.
MaxEnvDim == 4

\* INT_MIN and INT_MAX: what static_cast<int> may give for a NaN or for a
\* value outside the range of int.
IntMin == -2147483647 - 1

IntMax == 2147483647

\* Values the casts of lines 131-132 may produce for a map dimension n: the
\* range 0..n of the computation itself, its neighbours, and the extremes.
CastValues(n) == {IntMin, -n - 1, -1, IntMax} \cup (0..(n + 1))

InitEnv ==
    /\ pc = "env"
    /\ exit_status = 0
    /\ err = <<>>
    /\ load = [null |-> TRUE]
    /\ envmap_width \in 1..MaxEnvDim
    /\ envmap_height \in 1..MaxEnvDim
    /\ envmap = [k \in 1..(envmap_width * envmap_height) |-> <<k % (Unit + 1), 0, 0>>]
    /\ spheres = <<>>
    /\ lights = <<>>
    /\ IdleRender
    /\ IdleCast
    /\ IdleProbe

\* Lines 131-133 with the two casts drawn freely.
EnvLookup ==
    /\ pc = "env"
    /\ \E castA \in CastValues(envmap_width), castB \in CastValues(envmap_height) :
          /\ probe' = [kind |-> "env", castA |-> castA, castB |-> castB]
          /\ probe_out' = [kind  |-> "env",
                           a     |-> ClampColumn(castA, envmap_width),
                           b     |-> ClampRow(castB, envmap_height),
                           index |-> EnvIndex(castA, castB, envmap_width,
                                              envmap_height)]
    /\ UNCHANGED <<mainVars, envVars, sceneVars, renderVars, castVars>>

NextEnv == EnvLookup

SpecEnv == InitEnv /\ [][NextEnv]_vars

\* C7: whatever the two casts are, the column is in [0, width-1], the row in
\* [0, height-1], and a + b*width is an index of the map.
C7_EnvIndexInRange ==
    probe_out.kind = "env" =>
        /\ probe_out.a \in 0..(envmap_width - 1)
        /\ probe_out.b \in 0..(envmap_height - 1)
        /\ probe_out.index \in 0..(envmap_width * envmap_height - 1)
        /\ probe_out.index = probe_out.a + probe_out.b * envmap_width
        /\ (probe_out.index + 1) \in DOMAIN envmap

\* The azimuth cast overshoots to width (atan2 returned pi) and the elevation
\* cast is INT_MIN (acos returned NaN): the lookup reads the last column of
\* the first row.
C7_Witness ==
    /\ probe_out.kind = "env"
    /\ envmap_width > 1 /\ envmap_height > 1
    /\ probe.castA = envmap_width
    /\ probe.castB = IntMin
    /\ probe_out.index = envmap_width - 1

-----------------------------------------------------------------------------
(* ray_intersect and scene_intersect on chosen rays: SpecGeom.              *)

\* Two spheres hit at the same distance by any ray through their center.
TieScene ==
    <<Sphere(<<0, 0, -100>>, 20, glass), Sphere(<<0, 0, -100>>, 20, mirror),
      Sphere(<<0, 0, -150>>, 20, snow_body)>>

\* Scenes whose coordinates are multiples of half a unit.
GeomScenes == {TileScene, MirrorScene, FarScene, NestedScene, TieScene}

\* Ray origins, multiples of half a unit.
GeomOrigins ==
    {<<0, 0, 0>>, <<0, 0, -200>>, Camera, <<0, 45, -200>>, <<-100, 5, 0>>,
     <<15, -20, -180>>, <<0, 5, 0>>}

\* Directions of length exactly 1: the axes and the 3-4-5 triangles.
GeomDirs ==
    {<<Unit, 0, 0>>, <<-Unit, 0, 0>>, <<0, Unit, 0>>, <<0, -Unit, 0>>,
     <<0, 0, Unit>>, <<0, 0, -Unit>>, <<6, 8, 0>>, <<-8, 0, 6>>, <<0, -8, -6>>,
     <<0, -6, 8>>, <<6, 0, -8>>, <<0, 6, -8>>, <<8, -6, 0>>}

InitGeom ==
    /\ pc = "geom"
    /\ exit_status = 0
    /\ err = <<>>
    /\ load = [null |-> TRUE]
    /\ envmap_width = 0
    /\ envmap_height = 0
    /\ envmap = <<>>
    /\ spheres \in GeomScenes
    /\ lights = <<>>
    /\ IdleRender
    /\ IdleCast
    /\ \E o \in GeomOrigins, d \in GeomDirs :
          probe = [kind |-> "ray", orig |-> o, dir |-> d]
    /\ probe_out = [kind |-> "none"]

\* ray_intersect is called on every sphere of the scene.
ProbeRayIntersect ==
    /\ pc = "geom"
    /\ probe_out' = [kind |-> "ray_intersect",
                     r    |-> [i \in 1..Len(spheres) |->
                                 RayIntersect(spheres[i], probe.orig, probe.dir, 0)]]
    /\ UNCHANGED <<mainVars, envVars, sceneVars, renderVars, castVars, probe>>

\* scene_intersect is called as cast_ray calls it (lines 126-129).
ProbeSceneIntersect ==
    /\ pc = "geom"
    /\ probe_out' = [kind |-> "scene_intersect",
                     si   |-> SceneIntersect(probe.orig, probe.dir, spheres,
                                             Zero3, Zero3, DefaultMaterial)]
    /\ spheres' = SceneAfterIntersect(probe.orig, probe.dir, spheres)
    /\ UNCHANGED <<mainVars, envVars, lights, renderVars, castVars, probe>>

NextGeom ==
    \/ ProbeRayIntersect
    \/ ProbeSceneIntersect

SpecGeom == InitGeom /\ [][NextGeom]_vars

-----------------------------------------------------------------------------
(* Properties of ray_intersect and scene_intersect, checked under SpecGeom. *)

\* Center of sphere i minus the origin of the ray.
ToCenter(i) == VSub(spheres[i].center, probe.orig)

\* The origin of the ray lies strictly outside every sphere.
OutsideAll ==
    \A i \in 1..Len(spheres) :
        Dot2(ToCenter(i), ToCenter(i)) > spheres[i].radius * spheres[i].radius

\* The cross product of a position and a unit direction, as a position.
CrossU(a, b) ==
    <<(a[2] * b[3] - a[3] * b[2]) \div Unit,
      (a[3] * b[1] - a[1] * b[3]) \div Unit,
      (a[1] * b[2] - a[2] * b[1]) \div Unit>>

\* The distance from the center of sphere i to the line of the ray exceeds
\* the radius.
PerpExceeds(i) ==
    Dot2(CrossU(ToCenter(i), probe.dir), CrossU(ToCenter(i), probe.dir))
        > spheres[i].radius * spheres[i].radius

\* The center of sphere i lies ahead of the origin along the ray.
Ahead(i) == Dot2(ToCenter(i), probe.dir) > 0

\* The point of the ray at distance t lies in or on sphere i:
\* |L - t*dir|^2 = L.L - 2t(L.dir) + t^2 <= radius^2.
InsideAt(i, t) ==
    Dot2(ToCenter(i), ToCenter(i))
        - 2 * t * (Dot2(ToCenter(i), probe.dir) \div Unit) + t * t
    <= spheres[i].radius * spheres[i].radius

\* t is the smaller positive root for sphere i, to the step: the ray is in
\* the sphere at t and was still outside one step before.
SmallerPositiveRoot(i, t) == t > 0 /\ InsideAt(i, t) /\ ~InsideAt(i, t - 1)

\* C3 as stated: from an origin outside every sphere, ray_intersect returns
\* false when the perpendicular distance exceeds the radius and otherwise
\* returns true with the smaller positive root in t0.
C3_AsStated ==
    (probe_out.kind = "ray_intersect" /\ OutsideAll) =>
        \A i \in 1..Len(spheres) :
            IF PerpExceeds(i) THEN ~probe_out.r[i].hit
            ELSE probe_out.r[i].hit /\ SmallerPositiveRoot(i, probe_out.r[i].t0)

\* C3, amended: from an origin outside every sphere, ray_intersect returns
\* false when the perpendicular distance exceeds the radius; otherwise it
\* returns true with the smaller positive root in t0 when the sphere lies
\* ahead of the origin, and false when it lies behind it (both roots are
\* negative).
C3_RayIntersect ==
    (probe_out.kind = "ray_intersect" /\ OutsideAll) =>
        \A i \in 1..Len(spheres) :
            IF PerpExceeds(i) THEN ~probe_out.r[i].hit
            ELSE IF Ahead(i)
                 THEN probe_out.r[i].hit
                      /\ SmallerPositiveRoot(i, probe_out.r[i].t0)
                 ELSE ~probe_out.r[i].hit

\* From outside every sphere, the line of the ray crosses one sphere ahead of
\* the origin, off its center, and another sphere behind the origin.
C3_Witness ==
    /\ probe_out.kind = "ray_intersect"
    /\ OutsideAll
    /\ \E i, j \in 1..Len(spheres) :
          /\ ~PerpExceeds(i) /\ Ahead(i) /\ probe_out.r[i].hit
          /\ CrossU(ToCenter(i), probe.dir) # Zero3
          /\ ~PerpExceeds(j) /\ ~Ahead(j) /\ ~probe_out.r[j].hit

\* ray_intersect on sphere i for the probed ray.
ProbeHit(i) == RayIntersect(spheres[i], probe.orig, probe.dir, 0)

\* The spheres the probed ray intersects.
ProbeHits == {i \in 1..Len(spheres) : ProbeHit(i).hit}

\* The smallest ray_intersect distance, FloatMax when no sphere is hit.
ProbeMinDist ==
    IF ProbeHits = {} THEN FloatMax
    ELSE CHOOSE t \in {ProbeHit(i).t0 : i \in ProbeHits} :
             \A i \in ProbeHits : t <= ProbeHit(i).t0

\* The first sphere, in scene order, at the smallest distance.
ProbeFirst ==
    CHOOSE i \in ProbeHits :
        /\ ProbeHit(i).t0 = ProbeMinDist
        /\ \A j \in ProbeHits : ProbeHit(j).t0 = ProbeMinDist => i <= j

\* scene_intersect accepted the plane hit.
PlaneChosen == probe_out.si.checkerboard_dist # FloatMax

\* C5: scene_intersect returns true exactly when the smaller of the nearest
\* sphere distance and the accepted plane distance is below 1000; the hit
\* point is orig + dir*t for that distance; without the plane, the normal and
\* the material are those of the first sphere at the smallest distance; the
\* plane is chosen only at a positive distance, strictly nearer than every
\* sphere hit, at a point of y = -4 (to the step) inside the tile.
C5_SceneIntersectNearest ==
    probe_out.kind = "scene_intersect" =>
        LET si == probe_out.si
            t  == IF PlaneChosen /\ si.checkerboard_dist < ProbeMinDist
                  THEN si.checkerboard_dist ELSE ProbeMinDist
        IN  /\ si.found <=> (t < MaxRenderDist * Unit)
            /\ si.spheres_dist = ProbeMinDist
            /\ si.found => si.hit = VAdd(probe.orig, VScale(probe.dir, t))
            /\ (~PlaneChosen /\ ProbeHits # {}) =>
                  /\ si.material = spheres[ProbeFirst].material
                  /\ si.N = Normalize(VSub(si.hit, spheres[ProbeFirst].center))
            /\ PlaneChosen =>
                  /\ si.checkerboard_dist > 0
                  /\ si.checkerboard_dist < ProbeMinDist
                  /\ Abs(si.hit[2] - PlaneY * Unit) <= 1
                  /\ Abs(si.hit[1]) < PlaneHalfWidth * Unit
                  /\ si.hit[3] < PlaneZNear * Unit
                  /\ si.hit[3] > PlaneZFar * Unit
                  /\ si.N = <<0, Unit, 0>>

\* The only sphere on the ray is hit beyond the maximum render distance and
\* the plane is not: scene_intersect returns false.
C5_Witness ==
    /\ probe_out.kind = "scene_intersect"
    /\ ProbeHits # {}
    /\ ProbeMinDist >= MaxRenderDist * Unit
    /\ ~PlaneChosen
    /\ ~probe_out.si.found

\* C10: when the plane hit is accepted, the returned material is pure black
\* or pure white in diffuse_color and otherwise the material of the nearest
\* sphere the ray also intersects, which lies beyond the plane, or the
\* material passed in (the default one) when the ray intersects no sphere.
C10_PlaneBorrowsMaterial ==
    (probe_out.kind = "scene_intersect" /\ PlaneChosen) =>
        LET m    == probe_out.si.material
            base == IF ProbeHits = {} THEN DefaultMaterial
                    ELSE spheres[ProbeFirst].material
        IN  /\ m.diffuse_color \in {<<0, 0, 0>>, <<Unit, Unit, Unit>>}
            /\ m.albedo = base.albedo
            /\ m.refractive_index = base.refractive_index
            /\ m.specular_exponent = base.specular_exponent
            /\ ProbeHits # {} => ProbeMinDist > probe_out.si.checkerboard_dist

\* The ray meets the plane and then a sphere below it whose albedo is not
\* the default one: the plane is shaded with the weights of that sphere.
C10_Witness ==
    /\ probe_out.kind = "scene_intersect"
    /\ PlaneChosen
    /\ probe_out.si.found
    /\ ProbeHits # {}
    /\ probe_out.si.material.albedo = snow_button.albedo
    /\ probe_out.si.material.albedo # DefaultMaterial.albedo

-----------------------------------------------------------------------------
(* cast_ray as the machine runs it: one frame per active call, the scene    *)
(* queries and the calls of lines 129-164 in program order.                 *)

\* Lines 147-151: the shadow ray of a light from a surface point.
ShadowRay(light, point, N) ==
    With(Normalize(VSub(light.position, point)), LAMBDA light_dir :
        [orig |-> OffsetOrigin(light_dir, point, N), dir |-> light_dir])

\* The secondary rays of a frame that has not hit anything yet.
NoRays ==
    [reflect_dir |-> Zero3, refract_dir |-> Zero3,
     reflect_orig |-> Zero3, refract_orig |-> Zero3]

\* The frame of a call cast_ray(orig, dir, spheres, lights, depth) on entry
\* (lines 126-127: point, N and a default-constructed material).
Frame(orig, dir, depth) ==
    [orig |-> orig, dir |-> dir, depth |-> depth, at |-> "enter",
     point |-> Zero3, N |-> Zero3, material |-> DefaultMaterial, g |-> NoRays,
     reflect_color |-> Zero3, refract_color |-> Zero3,
     i |-> 1, acc |-> NoLight]

\* The call on top of the stack.
Top == stack[Len(stack)]

\* The stack with its top frame replaced.
SetTop(f) == [stack EXCEPT ![Len(stack)] = f]

\* The stack after the top call returns color: the caller stores it in
\* reflect_color (line 142) or refract_color (line 143) and goes on.
Returned(color) ==
    IF Len(stack) = 1 THEN <<>>
    ELSE With(Len(stack) - 1, LAMBDA n :
         With(stack[n], LAMBDA caller :
         With(IF caller.at = "await_reflect"
              THEN [caller EXCEPT !.reflect_color = color, !.at = "refract"]
              ELSE [caller EXCEPT !.refract_color = color, !.at = "lights"],
              LAMBDA resumed :
             [k \in 1..n |-> IF k = n THEN resumed ELSE stack[k]])))

\* The top call returns color (to its caller, or to render for depth 0).
Return(color) ==
    /\ stack' = Returned(color)
    /\ ret' = IF Len(stack) = 1 THEN color ELSE ret
    /\ pc' = IF Len(stack) = 1 THEN "done" ELSE pc

\* One more call of cast_ray at the given depth.
Counted(depth) == [ncalls EXCEPT ![depth + 1] = @ + 1]

\* Line 129, first operand true: depth > 4, no scene query, the environment
\* sample is returned (lines 131-133).
CastEnterDeep ==
    /\ pc = "cast"
    /\ stack # <<>>
    /\ Top.at = "enter"
    /\ DepthExceeded(Top.depth)
    /\ ncalls' = Counted(Top.depth)
    /\ Return(EnvSample(Top.dir, Env))
    /\ UNCHANGED <<exit_status, err, load, envVars, sceneVars, renderVars,
                   d5queries, probeVars>>

\* Line 129, second operand true: scene_intersect finds nothing, the
\* environment sample is returned (lines 131-133).
CastEnterMiss ==
    /\ pc = "cast"
    /\ stack # <<>>
    /\ Top.at = "enter"
    /\ ~DepthExceeded(Top.depth)
    /\ ~SceneIntersect(Top.orig, Top.dir, spheres, Zero3, Zero3,
                       DefaultMaterial).found
    /\ ncalls' = Counted(Top.depth)
    /\ d5queries' = IF Top.depth > MaxDepth THEN d5queries + 1 ELSE d5queries
    /\ spheres' = SceneAfterIntersect(Top.orig, Top.dir, spheres)
    /\ Return(EnvSample(Top.dir, Env))
    /\ UNCHANGED <<exit_status, err, load, envVars, lights, renderVars,
                   probeVars>>

\* Lines 129 and 137-141: scene_intersect finds a hit; the secondary rays are
\* computed.
CastEnterHit ==
    /\ pc = "cast"
    /\ stack # <<>>
    /\ Top.at = "enter"
    /\ ~DepthExceeded(Top.depth)
    /\ \E si \in {SceneIntersect(Top.orig, Top.dir, spheres, Zero3, Zero3,
                                 DefaultMaterial)} :
          /\ si.found
          /\ stack' = SetTop([Top EXCEPT
                 !.at = "reflect", !.point = si.hit, !.N = si.N,
                 !.material = si.material,
                 !.g = SecondaryRays(Top.dir, si.hit, si.N, si.material)])
    /\ ncalls' = Counted(Top.depth)
    /\ d5queries' = IF Top.depth > MaxDepth THEN d5queries + 1 ELSE d5queries
    /\ spheres' = SceneAfterIntersect(Top.orig, Top.dir, spheres)
    /\ UNCHANGED <<mainVars, envVars, lights, renderVars, ret, probeVars>>

\* Line 142: the call for the reflected ray, at depth + 1.
CastReflect ==
    /\ pc = "cast"
    /\ stack # <<>>
    /\ Top.at = "reflect"
    /\ stack' = Append(SetTop([Top EXCEPT !.at = "await_reflect"]),
                       Frame(Top.g.reflect_orig, Top.g.reflect_dir,
                             Top.depth + 1))
    /\ UNCHANGED <<mainVars, envVars, sceneVars, renderVars, ret, ncalls,
                   d5queries, probeVars>>

\* Line 143: the call for the refracted ray, at depth + 1.
CastRefract ==
    /\ pc = "cast"
    /\ stack # <<>>
    /\ Top.at = "refract"
    /\ stack' = Append(SetTop([Top EXCEPT !.at = "await_refract"]),
                       Frame(Top.g.refract_orig, Top.g.refract_dir,
                             Top.depth + 1))
    /\ UNCHANGED <<mainVars, envVars, sceneVars, renderVars, ret, ncalls,
                   d5queries, probeVars>>

\* Lines 146-161: one iteration of the loop over the lights, with its shadow
\* query.
CastLight ==
    /\ pc = "cast"
    /\ stack # <<>>
    /\ Top.at = "lights"
    /\ Top.i <= Len(lights)
    /\ stack' = SetTop([Top EXCEPT
           !.acc = LightStep(Top.i, lights, spheres, Top.point, Top.N,
                             Top.dir, Top.material, Top.acc),
           !.i = Top.i + 1])
    /\ \E sr \in {ShadowRay(lights[Top.i], Top.point, Top.N)} :
          spheres' = SceneAfterIntersect(sr.orig, sr.dir, spheres)
    /\ UNCHANGED <<mainVars, envVars, lights, renderVars, ret, ncalls,
                   d5queries, probeVars>>

\* Lines 162-164: the loop is over, the shaded color is returned.
CastReturn ==
    /\ pc = "cast"
    /\ stack # <<>>
    /\ Top.at = "lights"
    /\ Top.i > Len(lights)
    /\ Return(Shade(Top.material, Top.acc, Top.reflect_color,
                    Top.refract_color))
    /\ UNCHANGED <<exit_status, err, load, envVars, sceneVars, renderVars,
                   ncalls, d5queries, probeVars>>

\* A scene of mirrors only around the origin: every ray from inside bounces
\* forever.
MirrorBox ==
    <<Sphere(<<0, 0, 0>>, 50, mirror), Sphere(<<0, 0, 0>>, 80, mirror)>>

\* The scenes cast_ray is run on, with their lights.
CastScenes ==
    {[spheres |-> NestedScene, lights |-> TileLights],
     [spheres |-> TileScene, lights |-> TileLights],
     [spheres |-> MirrorScene, lights |-> <<Light(<<0, 100, 0>>, 15)>>],
     [spheres |-> MirrorBox, lights |-> <<>>],
     [spheres |-> SnowmanScene, lights |-> SnowmanLights]}

\* The primary rays cast_ray is run on.
CastRays ==
    {[orig |-> <<0, 0, 0>>, dir |-> <<Unit, 0, 0>>],
     [orig |-> <<0, 0, 0>>, dir |-> <<6, 8, 0>>],
     [orig |-> <<0, 5, 0>>, dir |-> <<-8, 0, 6>>],
     [orig |-> <<0, 0, -200>>, dir |-> <<0, -Unit, 0>>],
     [orig |-> <<0, 0, 0>>, dir |-> <<0, 0, -Unit>>],
     [orig |-> Camera, dir |-> PrimaryDir(0, 0)],
     [orig |-> Camera, dir |-> PrimaryDir(1, 1)]}

\* render calls cast_ray at depth 0 (line 183) with the environment map
\* loaded.
InitCast ==
    /\ pc = "cast"
    /\ exit_status = 0
    /\ err = <<>>
    /\ load = [null |-> FALSE]
    /\ envmap_width = 4
    /\ envmap_height = 2
    /\ envmap = EnvOf(Image(4, 2, 3)).data
    /\ \E sc \in CastScenes : spheres = sc.spheres /\ lights = sc.lights
    /\ IdleRender
    /\ \E r \in CastRays :
          /\ probe = [kind |-> "ray", orig |-> r.orig, dir |-> r.dir]
          /\ stack = <<Frame(r.orig, r.dir, 0)>>
    /\ probe_out = [kind |-> "none"]
    /\ ret = <<>>
    /\ ncalls = [d \in 1..(MaxDepth + 3) |-> 0]
    /\ d5queries = 0

NextCast ==
    \/ CastEnterDeep
    \/ CastEnterMiss
    \/ CastEnterHit
    \/ CastReflect
    \/ CastRefract
    \/ CastLight
    \/ CastReturn

\* The call runs on its own thread of control: it keeps taking steps.
SpecCast == InitCast /\ [][NextCast]_vars /\ WF_vars(NextCast)

-----------------------------------------------------------------------------
(* Properties of cast_ray, checked under SpecCast.                          *)

\* The number of calls of cast_ray so far, over all depths.
RECURSIVE CallsUpTo(_)
CallsUpTo(d) == IF d = 0 THEN 0 ELSE ncalls[d] + CallsUpTo(d - 1)

\* Every active call is one deeper than its caller, no call is deeper than 5,
\* a call at depth 5 never gets past its entry, no scene query was made at
\* depth 5, and the calls stay within 32 at depth 5 and 63 in all.
CallTreeBounded ==
    /\ \A k \in 1..Len(stack) :
          /\ stack[k].depth = k - 1
          /\ stack[k].depth <= 5
          /\ stack[k].depth = 5 => stack[k].at = "enter"
    /\ d5queries = 0
    /\ ncalls[6] <= 32
    /\ CallsUpTo(Len(ncalls)) <= 63

\* The step of a call at depth 5: it returns the environment sample of its
\* direction to its caller, without a query and without a further call.
DeepCallReturnsSample ==
    (stack # <<>> /\ Top.depth = 5) =>
        /\ Len(stack') = Len(stack) - 1
        /\ spheres' = spheres
        /\ LET caller  == stack[Len(stack) - 1]
               resumed == stack'[Len(stack) - 1]
           IN  IF caller.at = "await_reflect"
               THEN resumed.reflect_color = EnvSample(Top.dir, Env)
               ELSE resumed.refract_color = EnvSample(Top.dir, Env)

\* C1: cast_ray called at depth 0 terminates; each recursive call is one
\* deeper than its caller, none is deeper than 5, a call at depth 5 makes no
\* intersection query and no further call and returns an environment-map
\* sample, and a primary ray causes at most 32 calls at depth 5 and 63 calls
\* in total.
C1_CastRayTerminates ==
    /\ []CallTreeBounded
    /\ [][DeepCallReturnsSample]_vars
    /\ <>(pc = "done" /\ stack = <<>> /\ ret # <<>>)

\* A primary ray whose every secondary ray hits a sphere down to depth 4 has
\* returned: 32 calls at depth 5, 63 in all.
C1_Witness ==
    /\ pc = "done"
    /\ ret # <<>>
    /\ ncalls[6] = 32
    /\ CallsUpTo(Len(ncalls)) = 63

\* Whether light l is occluded at the surface point of frame f: the shadow
\* ray hits something nearer than the light.
LightOccluded(f, l) ==
    LET sr == ShadowRay(lights[l], f.point, f.N)
        sh == SceneIntersect(sr.orig, sr.dir, spheres, Zero3, Zero3,
                             DefaultMaterial)
    IN  /\ sh.found
        /\ Norm(VSub(sh.hit, sr.orig)) < Norm(VSub(lights[l].position, f.point))

\* What light l adds, by itself, to the two intensities of frame f.
LightAdds(f, l) ==
    IF LightOccluded(f, l) THEN NoLight
    ELSE [diffuse  |-> Mul(lights[l].intensity,
                           Max(0, Dot(Normalize(VSub(lights[l].position,
                                                     f.point)), f.N))),
          specular |-> SpecularTerm(lights[l], f.point, f.N, f.dir, f.material)]

\* The sum of what the first n lights add, each by itself.
RECURSIVE SumAdds(_, _)
SumAdds(f, n) ==
    IF n = 0 THEN NoLight
    ELSE [diffuse  |-> SumAdds(f, n - 1).diffuse + LightAdds(f, n).diffuse,
          specular |-> SumAdds(f, n - 1).specular + LightAdds(f, n).specular]

\* C4: in the loop over the lights, an occluded light adds nothing to the
\* diffuse and the specular intensity, any other light adds
\* intensity*max(0, light_dir.N) and its Phong term, and what a light adds
\* does not depend on the other lights: after any number of iterations the
\* two intensities are the sum of the lights' own contributions.
C4_ShadowPerLight ==
    \A k \in 1..Len(stack) :
        stack[k].at = "lights" =>
            stack[k].acc = SumAdds(stack[k], stack[k].i - 1)

\* A call has finished the loop at a point where an earlier light is
\* occluded and a later one is not and adds diffuse light.
C4_Witness ==
    \E k \in 1..Len(stack) :
        /\ stack[k].at = "lights"
        /\ stack[k].i = Len(lights) + 1
        /\ \E a, b \in 1..Len(lights) :
              /\ a < b
              /\ LightOccluded(stack[k], a)
              /\ ~LightOccluded(stack[k], b)
              /\ LightAdds(stack[k], b).diffuse > 0
        /\ stack[k].acc.diffuse > 0

\* C9: no step of cast_ray or scene_intersect changes a sphere or a light of
\* the stored scene; the pattern color of the plane goes only into the
\* material handed back to the caller.
C9_SceneReadOnly == [][spheres' = spheres /\ lights' = lights]_vars

\* A call holds a plane hit whose material was taken from the sphere behind
\* the plane and recolored, and that sphere still has its own color.
C9_Witness ==
    /\ spheres = TileScene
    /\ \E k \in 1..Len(stack) :
          /\ stack[k].at = "lights"
          /\ stack[k].N = <<0, Unit, 0>>
          /\ stack[k].material.albedo = spheres[1].material.albedo
          /\ stack[k].material.diffuse_color
                 \in {<<0, 0, 0>>, <<Unit, Unit, Unit>>}
          /\ stack[k].material.diffuse_color # spheres[1].material.diffuse_color

=============================================================================
